---- MODULE Spec2Model ----
(***************************************************************************)
(* Model of py_audioin_api/api.py: the Audio component API, its gRPC       *)
(* client (AudioClient.get_audio and the read() generator it wraps) and    *)
(* its gRPC service (AudioRPCService.GetAudio), joined by the streaming    *)
(* transport the two are written against.                                  *)
(*                                                                         *)
(* One session is one call of AudioClient.get_audio together with the      *)
(* handler invocation it causes on the server.                             *)
(***************************************************************************)
EXTENDS Integers, Sequences, FiniteSets, TLC

\* ------------------------------------------------------------------ bounds
MaxDuration == 3        \* durationSeconds, maxDurationSeconds range over 0..MaxDuration
MaxTimestamp == 2       \* previousTimestamp ranges over 0..MaxTimestamp
MaxChunks == 2          \* chunks a peer provider sends in one session

Sessions == {1, 2}      \* concurrent calls of get_audio on one client

\* ------------------------------------------------------- values and inputs
ClientName == "mic"                 \* self.name of the AudioClient
Codecs == {"pcm", "bogus"}          \* values the caller may pass as codec
Durations == 0..MaxDuration
Timestamps == 0..MaxTimestamp

NoRequest == [name |-> "none"]

\* AudioChunk messages a provider may put on the stream
ChunkTimes == {1, 2}
Chunks == [sequenceNumber : 1..MaxChunks, timestamp : ChunkTimes]

\* GetAudioRequest(...) exactly as get_audio fills it in
GetAudioRequest(durationSeconds, codec, maxDurationSeconds, previousTimestamp) ==
    [name                 |-> ClientName,
     duration_seconds     |-> durationSeconds,
     codec                |-> codec,
     max_duration_seconds |-> maxDurationSeconds,
     previous_timestamp   |-> previousTimestamp]

\* What the design documents assume of the provider; no code sets these.
SupportedFormats == {"pcm"}
RetentionStart == 2     \* oldest timestamp the Capture Source still retains
ChunkSeconds == 1       \* seconds of audio in one chunk

Min(a, b) == IF a <= b THEN a ELSE b

\* ------------------------------------------------------------------- state
VARIABLES
    clientPc,   \* where each call of get_audio / read() stands
    args,       \* the arguments the caller passed to get_audio
    request,    \* the GetAudioRequest built by get_audio
    reqWire,    \* messages the client has sent on the stream, with their end flag
    serverPc,   \* where the handler invocation stands
    emitted,    \* chunks the handler has sent, in order
    respWire,   \* chunks sent by the server and not yet received by the client
    trailer,    \* status the server closed the stream with ("none" while open)
    closes,     \* how many times the server has closed the response stream
    handlerRecv,\* request messages the handler has received from its stream
    lookups,    \* capture sources the handler has looked up
    received,   \* chunks read() has taken off the stream
    yielded,    \* chunks read() has yielded to the consumer
    error       \* exception raised to the consumer ("none" if none)

vars == <<clientPc, args, request, reqWire, serverPc, emitted, respWire, trailer,
          closes, handlerRecv, lookups, received, yielded, error>>

clientVars == <<clientPc, args, request, reqWire, received, yielded, error>>
handlerVars == <<handlerRecv, lookups>>
serverVars == <<serverPc, emitted, trailer, closes, handlerVars>>

Init ==
    /\ clientPc = [s \in Sessions |-> "idle"]
    /\ args     = [s \in Sessions |-> <<>>]
    /\ request  = [s \in Sessions |-> NoRequest]
    /\ reqWire  = [s \in Sessions |-> <<>>]
    /\ serverPc = [s \in Sessions |-> "idle"]
    /\ emitted  = [s \in Sessions |-> <<>>]
    /\ respWire = [s \in Sessions |-> <<>>]
    /\ trailer  = [s \in Sessions |-> "none"]
    /\ closes   = [s \in Sessions |-> 0]
    /\ handlerRecv = [s \in Sessions |-> 0]
    /\ lookups  = [s \in Sessions |-> 0]
    /\ received = [s \in Sessions |-> <<>>]
    /\ yielded  = [s \in Sessions |-> <<>>]
    /\ error    = [s \in Sessions |-> "none"]

\* ------------------------------------------------------------------ client

\* get_audio as it would be if it kept the request on the client object
\* (self.request) instead of in a local: a later call overwrites it for every
\* stream not yet finished.
get_audio_shared(s, durationSeconds, codec, maxDurationSeconds, previousTimestamp) ==
    /\ clientPc[s] = "idle"
    /\ args' = [args EXCEPT ![s] =
          <<durationSeconds, codec, maxDurationSeconds, previousTimestamp>>]
    /\ request' = [t \in Sessions |->
          GetAudioRequest(durationSeconds, codec, maxDurationSeconds, previousTimestamp)]
    /\ clientPc' = [clientPc EXCEPT ![s] = "created"]
    /\ UNCHANGED <<reqWire, received, yielded, error, serverVars, respWire>>

\* get_audio as it would be if it opened the stream and sent the request
\* itself, before returning, instead of leaving both to read().
get_audio_eager(s, durationSeconds, codec, maxDurationSeconds, previousTimestamp) ==
    /\ clientPc[s] = "idle"
    /\ args' = [args EXCEPT ![s] =
          <<durationSeconds, codec, maxDurationSeconds, previousTimestamp>>]
    /\ request' = [request EXCEPT ![s] =
          GetAudioRequest(durationSeconds, codec, maxDurationSeconds, previousTimestamp)]
    /\ reqWire' = [reqWire EXCEPT ![s] = Append(@, [msg |-> request'[s], end |-> TRUE])]
    /\ clientPc' = [clientPc EXCEPT ![s] = "sent"]
    /\ UNCHANGED <<received, yielded, error, serverVars, respWire>>

\* AudioClient.get_audio: builds the request and returns StreamWithIterator(read());
\* read() is a generator, so nothing of its body runs yet.
get_audio(s, durationSeconds, codec, maxDurationSeconds, previousTimestamp) ==
    /\ clientPc[s] = "idle"
    /\ args' = [args EXCEPT ![s] =
          <<durationSeconds, codec, maxDurationSeconds, previousTimestamp>>]
    /\ request' = [request EXCEPT ![s] =
          GetAudioRequest(durationSeconds, codec, maxDurationSeconds, previousTimestamp)]
    /\ clientPc' = [clientPc EXCEPT ![s] = "created"]
    /\ UNCHANGED <<reqWire, received, yielded, error, serverVars, respWire>>

\* read(), first pull by the consumer: async with self.client.GetAudio.open()
read_open(s) ==
    /\ clientPc[s] = "created"
    /\ clientPc' = [clientPc EXCEPT ![s] = "opened"]
    /\ UNCHANGED <<args, request, reqWire, received, yielded, error, serverVars, respWire>>

\* read(): await audio_stream.send_message(request, end=True)
read_send(s) ==
    /\ clientPc[s] = "opened"
    /\ reqWire' = [reqWire EXCEPT ![s] = Append(@, [msg |-> request[s], end |-> TRUE])]
    /\ clientPc' = [clientPc EXCEPT ![s] = "sent"]
    /\ UNCHANGED <<args, request, received, yielded, error, serverVars, respWire>>

\* read(): send_message raises (the connection is lost); except ... raise (e)
read_send_raises(s) ==
    /\ clientPc[s] = "opened"
    /\ clientPc' = [clientPc EXCEPT ![s] = "raised"]
    /\ error' = [error EXCEPT ![s] = "Unavailable"]
    /\ UNCHANGED <<args, request, reqWire, received, yielded, serverVars, respWire>>

\* read() as it would be if the except clause swallowed the error and the
\* generator just ended.
read_end_swallows(s) ==
    /\ clientPc[s] = "sent"
    /\ respWire[s] = <<>>
    /\ trailer[s] # "none"
    /\ clientPc' = [clientPc EXCEPT ![s] = "done"]
    /\ UNCHANGED <<args, request, reqWire, received, yielded, error, serverVars, respWire>>

\* read(): async for ... in audio_stream, the stream is exhausted.  A closing
\* status other than OK is raised by the transport and re-raised by the except.
read_end(s) ==
    /\ clientPc[s] = "sent"
    /\ respWire[s] = <<>>
    /\ trailer[s] # "none"
    /\ IF trailer[s] = "OK"
       THEN /\ clientPc' = [clientPc EXCEPT ![s] = "done"]
            /\ UNCHANGED error
       ELSE /\ clientPc' = [clientPc EXCEPT ![s] = "raised"]
            /\ error' = [error EXCEPT ![s] = trailer[s]]
    /\ UNCHANGED <<args, request, reqWire, received, yielded, serverVars, respWire>>

\* read(): async for audioChunk in audio_stream, the next message arrives
read_chunk(s) ==
    /\ clientPc[s] = "sent"
    /\ respWire[s] # <<>>
    /\ received' = [received EXCEPT ![s] = Append(@, Head(respWire[s]))]
    /\ respWire' = [respWire EXCEPT ![s] = Tail(@)]
    /\ clientPc' = [clientPc EXCEPT ![s] = "yielding"]
    /\ UNCHANGED <<args, request, reqWire, yielded, error, serverVars>>

\* read() as it would be if the chunk were yielded twice.
read_yield_twice(s) ==
    /\ clientPc[s] = "yielding"
    /\ yielded' = [yielded EXCEPT ![s] =
          Append(Append(@, received[s][Len(received[s])]), received[s][Len(received[s])])]
    /\ clientPc' = [clientPc EXCEPT ![s] = "suspended"]
    /\ UNCHANGED <<args, request, reqWire, received, error, serverVars, respWire>>

\* read(): yield audioChunk hands the chunk to the consumer and suspends read()
read_yield(s) ==
    /\ clientPc[s] = "yielding"
    /\ yielded' = [yielded EXCEPT ![s] = Append(@, received[s][Len(received[s])])]
    /\ clientPc' = [clientPc EXCEPT ![s] = "suspended"]
    /\ UNCHANGED <<args, request, reqWire, received, error, serverVars, respWire>>

\* read(): the consumer pulls again; the loop goes back to wait for a message
read_resume(s) ==
    /\ clientPc[s] = "suspended"
    /\ clientPc' = [clientPc EXCEPT ![s] = "sent"]
    /\ UNCHANGED <<args, request, reqWire, received, yielded, error, serverVars, respWire>>

\* read(): the iteration raises while waiting (the connection is lost); re-raised
read_recv_raises(s) ==
    /\ clientPc[s] = "sent"
    /\ clientPc' = [clientPc EXCEPT ![s] = "raised"]
    /\ error' = [error EXCEPT ![s] = "Unavailable"]
    /\ UNCHANGED <<args, request, reqWire, received, yielded, serverVars, respWire>>

\* read(): the consumer abandons the stream (its task is cancelled while read()
\* waits for a message, or it closes the generator at the yield).  Neither is
\* an Exception, so the except clause does not see it; the stream is closed.
read_cancelled(s) ==
    /\ clientPc[s] \in {"sent", "suspended"}
    /\ clientPc' = [clientPc EXCEPT ![s] = "cancelled"]
    /\ UNCHANGED <<args, request, reqWire, received, yielded, error, serverVars, respWire>>

\* ------------------------------------------------------------------ server

\* The transport invokes the handler once the request has reached the server.
GetAudio_invoked(s) ==
    /\ serverPc[s] = "idle"
    /\ reqWire[s] # <<>>
    /\ serverPc' = [serverPc EXCEPT ![s] = "called"]
    /\ UNCHANGED <<clientVars, emitted, trailer, closes, handlerVars, respWire>>

\* GetAudio as it would be if it sent a chunk on its way out without ever
\* starting to stream.
GetAudio_sendsUnstarted(s) ==
    /\ serverPc[s] = "called"
    /\ \E c \in Chunks :
          /\ emitted' = [emitted EXCEPT ![s] = Append(@, c)]
          /\ respWire' = [respWire EXCEPT ![s] = Append(@, c)]
    /\ serverPc' = [serverPc EXCEPT ![s] = "returned"]
    /\ trailer' = [trailer EXCEPT ![s] = "OK"]
    /\ closes' = [closes EXCEPT ![s] = @ + 1]
    /\ UNCHANGED <<clientVars, handlerVars>>

\* GetAudio as it would be if its body raised instead of returning.
GetAudio_raises(s) ==
    /\ serverPc[s] = "called"
    /\ serverPc' = [serverPc EXCEPT ![s] = "returned"]
    /\ trailer' = [trailer EXCEPT ![s] = "Unknown"]
    /\ closes' = [closes EXCEPT ![s] = @ + 1]
    /\ UNCHANGED <<clientVars, emitted, respWire, handlerVars>>

\* GetAudio as it would be if it closed the stream itself and then went on to
\* send a chunk.
GetAudio_sendsAfterClose(s) ==
    \/ /\ serverPc[s] = "called"
       /\ serverPc' = [serverPc EXCEPT ![s] = "returned"]
       /\ trailer' = [trailer EXCEPT ![s] = "OK"]
       /\ closes' = [closes EXCEPT ![s] = @ + 1]
       /\ UNCHANGED <<clientVars, emitted, respWire, handlerVars>>
    \/ /\ serverPc[s] = "returned"
       /\ emitted[s] = <<>>
       /\ \E c \in Chunks :
             /\ emitted' = [emitted EXCEPT ![s] = Append(@, c)]
             /\ respWire' = [respWire EXCEPT ![s] = Append(@, c)]
       /\ UNCHANGED <<clientVars, serverPc, trailer, closes, handlerVars>>

\* GetAudio as it would be if it first received the request from its stream
\* (await stream.recv_message()) and then returned.
GetAudio_receives(s) ==
    /\ serverPc[s] = "called"
    /\ handlerRecv' = [handlerRecv EXCEPT ![s] = @ + 1]
    /\ serverPc' = [serverPc EXCEPT ![s] = "returned"]
    /\ trailer' = [trailer EXCEPT ![s] = "OK"]
    /\ closes' = [closes EXCEPT ![s] = @ + 1]
    /\ UNCHANGED <<clientVars, emitted, respWire, lookups>>

\* AudioRPCService.GetAudio: "return".  It receives nothing and sends nothing;
\* the transport closes the response stream with status OK.
GetAudio(s) ==
    /\ serverPc[s] = "called"
    /\ serverPc' = [serverPc EXCEPT ![s] = "returned"]
    /\ trailer' = [trailer EXCEPT ![s] = "OK"]
    /\ closes' = [closes EXCEPT ![s] = @ + 1]
    /\ UNCHANGED <<clientVars, emitted, respWire, handlerVars>>

\* A provider other than AudioRPCService serving the same API (the client is
\* written against the API, not against this handler): it may send any chunks
\* and close with any status.
Statuses == {"OK", "InvalidArgument", "OutOfRange", "Timeout", "Unavailable", "Cancelled"}

Peer_send(s, c) ==
    /\ serverPc[s] \in {"called", "streaming"}
    /\ Len(emitted[s]) < MaxChunks
    /\ serverPc' = [serverPc EXCEPT ![s] = "streaming"]
    /\ emitted' = [emitted EXCEPT ![s] = Append(@, c)]
    /\ respWire' = [respWire EXCEPT ![s] = Append(@, c)]
    /\ UNCHANGED <<clientVars, trailer, closes, handlerVars>>

Peer_close(s, st) ==
    /\ serverPc[s] \in {"called", "streaming"}
    /\ serverPc' = [serverPc EXCEPT ![s] = "returned"]
    /\ trailer' = [trailer EXCEPT ![s] = st]
    /\ closes' = [closes EXCEPT ![s] = @ + 1]
    /\ UNCHANGED <<clientVars, emitted, respWire, handlerVars>>

\* ----------------------------------------------------------- specification
Requests == Durations \X Codecs \X Durations \X Timestamps

\* The caller's steps of one session: the call, with arguments among R, and
\* the consumer's pulls
Caller(s, R) ==
    \/ \E r \in R : get_audio(s, r[1], r[2], r[3], r[4])
    \/ read_open(s)
    \/ read_send(s)
    \/ read_end(s)

\* What the environment may do to a session: lose the connection, cancel
Disturb(s) ==
    \/ read_send_raises(s)
    \/ read_recv_raises(s)
    \/ read_cancelled(s)

\* The service's steps of one session
Service(s) ==
    \/ GetAudio_invoked(s)
    \/ GetAudio(s)

\* One session of AudioClient against AudioRPCService.  Sessions share no
\* state, so per-session properties are checked on one of them.
Next == Caller(1, Requests) \/ Service(1) \/ Disturb(1)

Spec == Init /\ [][Next]_vars

\* The same with a connection that stays up and a consumer that keeps
\* pulling: every step that can be taken eventually is.
NextLive == Caller(1, Requests) \/ Service(1)

SpecLive == Init /\ [][NextLive]_vars /\ WF_vars(NextLive)

\* Two requests that differ in every argument, for the specifications whose
\* subject is not the request.
SampleRequests == {<<1, "pcm", 1, 0>>, <<MaxDuration, "bogus", 0, MaxTimestamp>>}

\* All sessions, interleaved.
NextAll == \E s \in Sessions : Caller(s, SampleRequests) \/ Service(s) \/ Disturb(s)

SpecAll == Init /\ [][NextAll]_vars

\* The client against a peer provider, one session.  The peer does anything,
\* whatever the request, so two requests stand for all.
NextPeer ==
    \/ Caller(1, SampleRequests)
    \/ Disturb(1)
    \/ read_chunk(1)
    \/ read_yield(1)
    \/ read_resume(1)
    \/ GetAudio_invoked(1)
    \/ \E c \in Chunks : Peer_send(1, c)
    \/ \E st \in Statuses : Peer_close(1, st)

SpecPeer == Init /\ [][NextPeer]_vars

\* ------------------------------------------------- vocabulary of the claims

\* The session state the design names, read off the handler's position.
SessionState(s) ==
    CASE serverPc[s] = "idle"      -> "None"
      [] serverPc[s] = "called"    -> "Initializing"
      [] serverPc[s] = "streaming" -> "Streaming"
      [] serverPc[s] = "returned"  ->
            IF trailer[s] = "OK" THEN "Completed"
            ELSE IF trailer[s] = "Cancelled" THEN "Cancelled"
            ELSE "Failed"

Terminal == {"Completed", "Cancelled", "Failed"}

Rank(st) ==
    CASE st = "None"         -> 0
      [] st = "Initializing" -> 1
      [] st = "Streaming"    -> 2
      [] st \in Terminal     -> 3

\* Seconds of audio delivered to the consumer, by timestamp delta from the
\* position the session started at.
DeliveredSeconds(s) ==
    IF yielded[s] = <<>> THEN 0
    ELSE yielded[s][Len(yielded[s])].timestamp - request[s].previous_timestamp

Abs(x) == IF x < 0 THEN -x ELSE x

ValidRequest(r) == r # NoRequest /\ r.codec \in SupportedFormats

TargetSeconds(r) == Min(r.duration_seconds, r.max_duration_seconds)

ClosedNormally(s) == clientPc[s] = "done"

\* ------------------------------------------------------------------ claims

\* C1: for every valid request, when the session closes normally the audio
\* delivered to the client lasts min(durationSeconds, maxDurationSeconds)
\* seconds, within one chunk-duration.
C1_DeliveredIsTarget ==
    \A s \in Sessions :
        (ClosedNormally(s) /\ ValidRequest(request[s]))
            => Abs(DeliveredSeconds(s) - TargetSeconds(request[s])) <= ChunkSeconds

\* C4: a request that resumes from a previousTimestamp older than the retained
\* history is closed with OutOfRange and no chunk.
C4_StaleResumeIsOutOfRange ==
    \A s \in Sessions :
        (/\ trailer[s] # "none"
         /\ request[s].previous_timestamp > 0
         /\ request[s].previous_timestamp < RetentionStart)
            => (trailer[s] = "OutOfRange" /\ emitted[s] = <<>>)

\* C6: a request with an unsupported format is closed with InvalidArgument
\* and no chunk.
C6_UnsupportedIsInvalidArgument ==
    \A s \in Sessions :
        (trailer[s] # "none" /\ request[s].codec \notin SupportedFormats)
            => (trailer[s] = "InvalidArgument" /\ emitted[s] = <<>>)

\* C7: a valid request with durationSeconds above maxDurationSeconds is not
\* rejected, and its session delivers maxDurationSeconds of audio (within one
\* chunk-duration).
C7_OverlongIsClamped ==
    \A s \in Sessions :
        (/\ ValidRequest(request[s])
         /\ request[s].duration_seconds > request[s].max_duration_seconds
         /\ trailer[s] # "none")
            => /\ trailer[s] = "OK"
               /\ ClosedNormally(s) =>
                     Abs(DeliveredSeconds(s) - request[s].max_duration_seconds)
                        <= ChunkSeconds

\* C8: a session only moves forward through None, Initializing, Streaming and
\* the terminal states; a chunk is emitted only by a session in Streaming; a
\* session in a terminal state keeps that state and emits nothing more.
C8_Step ==
    \A s \in Sessions :
        /\ Rank(SessionState(s)') >= Rank(SessionState(s))
        /\ emitted'[s] # emitted[s] =>
              (SessionState(s) = "Streaming" \/ SessionState(s)' = "Streaming")
        /\ SessionState(s) \in Terminal =>
              (SessionState(s)' = SessionState(s) /\ emitted'[s] = emitted[s])

C10_Completes ==
    \A s \in {1} :
        (/\ clientPc[s] = "created"
         /\ ValidRequest(request[s])
         /\ request[s].duration_seconds > 0)
            ~> (/\ SessionState(s) = "Completed"
                /\ ClosedNormally(s)
                /\ error[s] = "none")

\* C10 witness: such a request, its session Completed and its stream ended
C10_Witness ==
    /\ ValidRequest(request[1])
    /\ request[1].duration_seconds > 0
    /\ SessionState(1) = "Completed"
    /\ ClosedNormally(1)
    /\ error[1] = "none"

\* The fields the request message has by the interface description (format is
\* the field the client calls codec).
RequestFields ==
    {"name", "sample_rate", "channels", "duration_seconds",
     "max_duration_seconds", "previous_timestamp"}

\* C11: every request message on the stream carries name, format, sampleRate,
\* channels, durationSeconds, maxDurationSeconds and previousTimestamp, each
\* with the value the caller passed, name being the client's name.
C11_RequestCarriesAllFields ==
    \A s \in Sessions : \A i \in 1..Len(reqWire[s]) :
        LET m == reqWire[s][i].msg IN
        /\ RequestFields \subseteq DOMAIN m
        /\ "format" \in DOMAIN m \/ "codec" \in DOMAIN m
        /\ m.name = ClientName
        /\ m.duration_seconds = args[s][1]
        /\ m.codec = args[s][2]
        /\ m.max_duration_seconds = args[s][3]
        /\ m.previous_timestamp = args[s][4]

\* C13 (state): the stream is closed at most once, with a status; a Completed
\* session was closed with the end-of-stream marker (status OK), a Failed one
\* with an error status and not the marker.
C13_Closed ==
    \A s \in Sessions :
        /\ closes[s] <= 1
        /\ closes[s] = 1 <=> trailer[s] # "none"
        /\ SessionState(s) = "Completed" => (closes[s] = 1 /\ trailer[s] = "OK")
        /\ SessionState(s) = "Failed" => (closes[s] = 1 /\ trailer[s] \notin {"none", "OK"})

\* C13 (step): once the stream is closed, no chunk is written to it and its
\* closing status stays.
C13_Step ==
    \A s \in Sessions :
        trailer[s] # "none" =>
            (/\ emitted'[s] = emitted[s]
             /\ Len(respWire'[s]) <= Len(respWire[s])
             /\ trailer'[s] = trailer[s])

SessionVars(s) ==
    <<clientPc[s], args[s], request[s], reqWire[s], serverPc[s], emitted[s],
      respWire[s], trailer[s], closes[s], handlerRecv[s], lookups[s],
      received[s], yielded[s], error[s]>>

\* C15 (step): a step is a step of one session and leaves every other session
\* as it was.
C15_Step ==
    \E s \in Sessions : \A t \in Sessions \ {s} : SessionVars(t)' = SessionVars(t)

\* C15 (state): what a session sends and delivers is what it does when alone:
\* its request is built from its own arguments, the message on its stream is
\* its own request, no capture source is touched and it delivers no chunk.
C15_OwnState ==
    \A s \in Sessions :
        /\ request[s] # NoRequest =>
              /\ args[s] # <<>>
              /\ request[s] =
                    GetAudioRequest(args[s][1], args[s][2], args[s][3], args[s][4])
        /\ \A i \in 1..Len(reqWire[s]) : reqWire[s][i].msg = request[s]
        /\ lookups[s] = 0
        /\ yielded[s] = <<>>

\* C15: with sessions running concurrently, no step of one session changes
\* another (or a capture source), and each delivers what it delivers alone.
C15_SessionsIndependent == []C15_OwnState /\ [][C15_Step]_vars

\* C15 witness: two sessions with different requests, one finished while the
\* other is in flight
C15_Witness ==
    /\ clientPc[1] = "done"
    /\ clientPc[2] = "sent"
    /\ serverPc[2] = "called"
    /\ request[1] # request[2]

IsPrefix(p, q) == Len(p) <= Len(q) /\ \A i \in 1..Len(p) : p[i] = q[i]

\* C16 (state): what read() has yielded is a prefix of what it has taken off
\* the stream, which with the chunks still in flight is what the provider
\* sent; read() holds a chunk not yet yielded only between taking it and the
\* yield.
C16_Relayed ==
    \A s \in Sessions :
        /\ IsPrefix(yielded[s], received[s])
        /\ received[s] \o respWire[s] = emitted[s]
        /\ clientPc[s] = "yielding" => Len(received[s]) = Len(yielded[s]) + 1
        /\ clientPc[s] # "yielding" => received[s] = yielded[s]

\* C16 (step): read() takes a chunk off the stream only while a pull of the
\* consumer is outstanding, and takes the next one in order; it yields the
\* chunk it has just taken, unaltered.
C16_Step ==
    \A s \in Sessions :
        /\ received'[s] # received[s] =>
              (/\ clientPc[s] = "sent"
               /\ respWire[s] # <<>>
               /\ received'[s] = Append(received[s], Head(respWire[s])))
        /\ yielded'[s] # yielded[s] =>
              (/\ clientPc[s] = "yielding"
               /\ yielded'[s] = Append(yielded[s], received[s][Len(received[s])]))

\* C16: the client relay is faithful: no chunk dropped, duplicated, reordered
\* or altered, and the next chunk is pulled only when the consumer asks.
C16_RelayFaithful == []C16_Relayed /\ [][C16_Step]_vars

\* C16 witness: two different chunks relayed, in the order they were sent
C16_Witness ==
    \E s \in Sessions :
        /\ Len(yielded[s]) = 2
        /\ yielded[s] = emitted[s]
        /\ yielded[s][1] # yielded[s][2]

\* C17 (state): before the consumer's first pull nothing is open and nothing
\* is sent; at most one message is ever on the request stream, it is the
\* request with end-of-requests set, and it is there before any chunk is
\* received and before the handler runs.
C17_OneRequest ==
    \A s \in Sessions :
        /\ clientPc[s] \in {"idle", "created"} =>
              (reqWire[s] = <<>> /\ serverPc[s] = "idle" /\ received[s] = <<>>)
        /\ Len(reqWire[s]) <= 1
        /\ \A i \in 1..Len(reqWire[s]) :
              reqWire[s][i].end = TRUE /\ reqWire[s][i].msg = request[s]
        /\ clientPc[s] \in {"sent", "yielding", "suspended", "done"} =>
              Len(reqWire[s]) = 1
        /\ (received[s] # <<>> \/ serverPc[s] # "idle") => Len(reqWire[s]) = 1

\* C17 (step): the stream is opened only by the consumer's first pull on a
\* stream get_audio has returned, and a message is sent only by read(), on
\* the stream just opened, with nothing sent or received on it yet.
C17_Step ==
    \A s \in Sessions :
        /\ (clientPc'[s] = "opened" /\ clientPc[s] # "opened") => clientPc[s] = "created"
        /\ reqWire'[s] # reqWire[s] =>
              (clientPc[s] = "opened" /\ reqWire[s] = <<>> /\ received[s] = <<>>)

\* C17: no stream is opened and no request sent until the consumer first
\* pulls; then exactly one request is sent, with end-of-requests set, before
\* any chunk is received; never a second message.
C17_LazySingleRequest == []C17_OneRequest /\ [][C17_Step]_vars

\* C17 witness: the request sent once, with its end flag, and a chunk
\* received after it
C17_Witness ==
    \E s \in Sessions :
        /\ Len(reqWire[s]) = 1
        /\ reqWire[s][1].end = TRUE
        /\ received[s] # <<>>
        /\ clientPc[s] = "suspended"

\* C18: whatever the request, the handler receives no message, looks up no
\* capture source and sends no chunk; once it has returned the stream is
\* closed with OK, the consumer gets zero chunks, and the only error it can
\* get is the connection's, never one raised by the handler.
C18_HandlerIsEmpty ==
    \A s \in Sessions :
        /\ handlerRecv[s] = 0
        /\ lookups[s] = 0
        /\ emitted[s] = <<>> /\ respWire[s] = <<>>
        /\ received[s] = <<>> /\ yielded[s] = <<>>
        /\ serverPc[s] = "returned" <=> trailer[s] = "OK"
        /\ trailer[s] \in {"none", "OK"}
        /\ error[s] \in {"none", "Unavailable"}
        /\ ClosedNormally(s) => (serverPc[s] = "returned" /\ error[s] = "none")

\* C18 witness: a request no provider would accept, its handler returned and
\* its stream ended normally with no chunk
C18_Witness ==
    \E s \in Sessions :
        /\ request[s] # NoRequest
        /\ request[s].codec \notin SupportedFormats
        /\ request[s].duration_seconds > request[s].max_duration_seconds
        /\ serverPc[s] = "returned"
        /\ ClosedNormally(s)
        /\ yielded[s] = <<>>

====
